---------------------------- MODULE Spec2Model ----------------------------
(***************************************************************************)
(* A model of darkob_panel.py: the line parser and user-key normaliser,    *)
(* the aggregation index, the forward tailer and the bounded full scanner  *)
(* running on one asyncio event loop beside an external log writer, the    *)
(* backward file reader with the historical paginator, and the broadcaster *)
(* with its SSE subscriptions.                                             *)
(*                                                                         *)
(* Text is modelled as a sequence of one-character strings.  A timestamp   *)
(* is the fixed-width all-digit field of the log grammar, scaled from the  *)
(* 19 characters of "YYYY-MM-DD HH:MM:SS" to TS_WIDTH digits.  File        *)
(* offsets of the ingestion model count lines (every line is one unit).    *)
(***************************************************************************)
EXTENDS Integers, Sequences, FiniteSets, TLC

\* ------------------------------------------------------------------ bounds
MaxLines    == 2   \* lines the external writer ever writes (ingestion)
MaxEnvOps   == 2   \* rotations, removals, creations and truncations of the log
                   \* and injected I/O errors, all together
MaxSubs     == 3   \* subscriber queues ever created (broadcaster)
MaxConns    == 2   \* api_events requests ever made (SSE)
MaxPub      == 2   \* events published (broadcaster)
MaxBytes    == 5   \* bytes of a file walked by the backward reader
MaxChunk    == 3   \* largest chunk_size given to the backward reader
MaxPageLines == 3  \* lines of a file paged by the historical paginator
MaxLimit    == 3   \* largest limit given to the historical paginator
MaxApply    == 3   \* events applied to the index by the two writers together
MaxSnapLimit == 2  \* largest limit given to /api/users
MaxCap      == 2   \* largest MAX_HOSTS_PER_USER the environment configures
MaxLiveSubs == 2   \* subscriber queues created while the ingestion tasks run
MaxUserLen  == 5   \* longest user name given to base_user
MaxLineLen  == 6   \* longest line given to parse_line

\* ------------------------------------------------------- program constants
TS_WIDTH              == 2  \* width of the timestamp field (19 in RE_MATCHED)
MAX_RECENT_EVENTS     == 2  \* deque(maxlen=...), 5000 in the source
DEFAULT_MAX_HOSTS     == 2  \* default of MAX_HOSTS_PER_USER, 200 in the source
FULL_SCAN_SLEEP_EVERY == 2  \* 3000 in the source
PAGE_CHUNK_SIZE       == 16 \* default chunk_size of the reader, 1 << 16
QUEUE_MAXSIZE         == 0  \* asyncio.Queue(): no maxsize, never full

\* -------------------------------------------------------------------- text
NL == "\n"
UNKNOWN == <<"U", "N", "K", "N", "O", "W", "N">>

isdigit(c) == c \in {"0", "1", "2", "3", "4", "5", "6", "7", "8", "9"}
isspace(c) == c \in {" ", "\t", "\n", "\r"}

\* Code points, for Python's lexicographic comparison of str.
Ord(c) ==
    CASE c = "\t" -> 9  [] c = "\n" -> 10 [] c = "\r" -> 13 [] c = " " -> 32
      [] c = "." -> 46
      [] c = "0" -> 48 [] c = "1" -> 49 [] c = "2" -> 50 [] c = "3" -> 51
      [] c = "4" -> 52 [] c = "5" -> 53 [] c = "6" -> 54 [] c = "7" -> 55
      [] c = "8" -> 56 [] c = "9" -> 57
      [] c = "U" -> 85 [] c = "N" -> 78 [] c = "K" -> 75 [] c = "O" -> 79
      [] c = "W" -> 87
      [] c = "a" -> 97 [] c = "b" -> 98 [] c = "g" -> 103 [] c = "h" -> 104
      [] c = "x" -> 120 [] c = "|" -> 124

\* The elements of a sequence.
Range(q) == {q[i] : i \in 1..Len(q)}

\* s[i:] of Python, with i counted from 1.
Drop(s, i) == SubSeq(s, i, Len(s))

\* a < b on str: the first differing character decides, a proper prefix is less.
RECURSIVE StrLess(_, _)
StrLess(a, b) ==
    IF b = <<>> THEN FALSE
    ELSE IF a = <<>> THEN TRUE
    ELSE IF Head(a) = Head(b) THEN StrLess(Tail(a), Tail(b))
    ELSE Ord(Head(a)) < Ord(Head(b))

StrGreater(a, b) == StrLess(b, a)
StrGeq(a, b) == ~StrLess(a, b)

RECURSIVE lstrip(_)
lstrip(s) == IF s # <<>> /\ isspace(Head(s)) THEN lstrip(Tail(s)) ELSE s

RECURSIVE rstrip(_)
rstrip(s) ==
    IF s # <<>> /\ isspace(s[Len(s)]) THEN rstrip(SubSeq(s, 1, Len(s) - 1)) ELSE s

strip(s) == rstrip(lstrip(s))

\* str.find(c), counted from 1; 0 when c does not occur.
RECURSIVE find_from(_, _, _)
find_from(s, c, i) ==
    IF i > Len(s) THEN 0
    ELSE IF s[i] = c THEN i
    ELSE find_from(s, c, i + 1)

find(s, c) == find_from(s, c, 1)

\* str.isdigit(): non-empty and every character a digit.
all_digits(s) == s # <<>> /\ \A i \in 1..Len(s) : isdigit(s[i])

\* ------------------------------------------------------------- line parser
\* RE_MATCHED.match(line) followed by the strips of parse_line, for a line
\* that holds no newline:  ^\s*(TS)\s*\|\s*([^|]+?)\s*\|\s*(.+)\s*$
\* The user is the text between the first two pipes and must hold at least
\* one character; the host is everything after the second pipe and must hold
\* at least one character (the regex gives a whitespace character back to
\* the group when the field is all blank).
\* The result is <<>> for None and <<event>> for an event.
parse_line(line) ==
    LET l1 == lstrip(line)
    IN  IF Len(l1) < TS_WIDTH \/ ~all_digits(SubSeq(l1, 1, TS_WIDTH)) THEN <<>>
        ELSE
        LET ts == SubSeq(l1, 1, TS_WIDTH)
            l2 == lstrip(Drop(l1, TS_WIDTH + 1))
        IN  IF l2 = <<>> \/ Head(l2) # "|" THEN <<>>
            ELSE
            LET r == Tail(l2)
                p == find(r, "|")
            IN  IF p = 0 \/ p = 1 THEN <<>>
                ELSE
                LET user == strip(SubSeq(r, 1, p - 1))
                    h    == Drop(r, p + 1)
                    host == strip(h)
                IN  IF h = <<>> THEN <<>>
                    ELSE IF user = <<>> THEN <<>>
                    ELSE << [ts |-> ts, user |-> user,
                             host |-> IF host = <<>> THEN UNKNOWN ELSE host] >>

\* ------------------------------------------------------ user-key normaliser
base_user(u) ==
    IF u = <<>> THEN u
    ELSE LET i == find(u, ".")
         IN  IF i > 1 /\ all_digits(SubSeq(u, 1, i - 1)) THEN Drop(u, i + 1)
             ELSE u

\* ------------------------------------------------------- aggregation index
\* int(os.getenv("MAX_HOSTS_PER_USER", "200")): read once at module load.
VARIABLE MAX_HOSTS_PER_USER

\* AGG is a function from the base keys present to their records.
new_record(ev) ==
    [count |-> 0, last_ts |-> ev.ts, sample_host |-> ev.host,
     variants |-> {ev.user},
     hosts |-> IF ev.host # <<>> THEN {ev.host} ELSE {}]

\* A record update that forgets "a['count'] += 1".
update_record_no_count(a, ev) ==
    LET newer == a.last_ts = <<>> \/ StrGreater(ev.ts, a.last_ts)
    IN  [count |-> a.count,
         last_ts |-> IF newer THEN ev.ts ELSE a.last_ts,
         sample_host |-> IF newer THEN ev.host ELSE a.sample_host,
         variants |-> a.variants \cup {ev.user},
         hosts |-> IF ev.host # <<>> /\ Cardinality(a.hosts) < MAX_HOSTS_PER_USER
                   THEN a.hosts \cup {ev.host} ELSE a.hosts]

\* A record update that takes the timestamp of whatever event came last.
update_record_last_wins(a, ev) ==
    [count |-> a.count + 1,
     last_ts |-> ev.ts,
     sample_host |-> ev.host,
     variants |-> a.variants \cup {ev.user},
     hosts |-> IF ev.host # <<>> /\ Cardinality(a.hosts) < MAX_HOSTS_PER_USER
               THEN a.hosts \cup {ev.host} ELSE a.hosts]

update_record(a, ev) ==
    LET newer == a.last_ts = <<>> \/ StrGreater(ev.ts, a.last_ts)
    IN  [count |-> a.count + 1,
         last_ts |-> IF newer THEN ev.ts ELSE a.last_ts,
         sample_host |-> IF newer THEN ev.host ELSE a.sample_host,
         variants |-> a.variants \cup {ev.user},
         hosts |-> IF ev.host # <<>> /\ Cardinality(a.hosts) < MAX_HOSTS_PER_USER
                   THEN a.hosts \cup {ev.host} ELSE a.hosts]

\* An apply that is suspended after "AGG[b] = a" when it creates a record.
apply_suspended_after_create(agg, ev) ==
    LET b == base_user(ev.user)
    IN  IF b \notin DOMAIN agg
        THEN [k \in DOMAIN agg \cup {b} |-> IF k = b THEN new_record(ev) ELSE agg[k]]
        ELSE [agg EXCEPT ![b] = update_record(agg[b], ev)]

_apply_event_to_agg(agg, ev) ==
    LET b == base_user(ev.user)
        a == IF b \notin DOMAIN agg THEN new_record(ev) ELSE agg[b]
    IN  [k \in DOMAIN agg \cup {b} |-> IF k = b THEN update_record(a, ev) ELSE agg[k]]

\* ------------------------------------------------------------------- state
VARIABLES
    \* the backward file reader (one run of the generator)
    rcontent,     \* the bytes of the file
    rchunk,       \* chunk_size
    rpos,         \* pos
    rbuffer,      \* buffer
    rout,         \* the lines yielded so far
    rpc,          \* "loop" | "done"
    \* the historical paginator
    pgfile,       \* the bytes of the log file
    pgquery,      \* the last call: <<>> or <<[base, limit, before_ts]>>
    pgresult,     \* what the last call returned
    modalAll,     \* the client's modalAll: the pages it has loaded, joined
    modalOldestTs, \* the client's cursor: <<>> (null) or a timestamp
    \* the broadcaster and the SSE connections
    subscribers,  \* Broadcaster.subscribers: a set of queue ids
    queue,        \* queue id -> the messages it holds
    nqueues,      \* queues created so far
    conn,         \* queue id -> where its api_events request stands
    published,    \* the messages given to broadcast so far
    lastop,       \* the last Broadcaster method called: <<name, queue id or 0>>
    \* the log file, as the external writer leaves it
    path,         \* the inode at LOG_PATH, 0 when the path does not exist
    files,        \* inode -> the lines of that file (line ids, in file order)
    text,         \* line id -> the text of the line, in the order written
    truncated,    \* the inodes that were truncated in place
    nenv,         \* rotations, removals, creations, truncations, I/O errors so far
    disturbed,    \* since on_start something other than an append happened to
                  \* the log, or an I/O error was raised
    moved,        \* since on_start something other than an append happened to
                  \* the log
    \* the event loop
    running,      \* "boot" | "tail" | "scan" | "idle": who holds the loop
    \* tail_file
    tail,         \* [pc, f, inode, pos, first_open, cause], and skipped: the
                  \* lines that the seek to the end of the first open passed over,
                  \* handles: the files it opened and has not closed,
                  \* born: the lines written before its task was created
    recent_events,
    temit,        \* the line ids the tailer applied, in order
    \* full_scan_file
    scan,         \* [pc, f, pos, stop_offset, applied, snap_ino, snap_id]
    FULL_SCAN_TOTAL_BYTES,
    FULL_SCAN_READ_BYTES,
    FULL_SCAN_DONE,
    FULL_SCAN_ERR,
    semit,        \* [id, off]: the lines the scanner applied, and where they began
    \* the aggregation index
    AGG,
    \* the index under two writers and the /api/users handler
    applied,      \* the events applied so far: [by, ev], in order
    snap,         \* the api_users call that was the last step, if one was:
                  \* <<>> or <<[user_q, site_q, limit, items]>>
    \* one call of a function on text
    call,         \* <<>> or <<[fn, arg, ret, done]>>
    \* the log of the queues made by Subscribe, one entry a queue
    heard         \* [since, until, got]: the number of broadcasts made before
                  \* the queue was registered and before it was unregistered
                  \* (until = since - 1 while it is registered), and the
                  \* messages its consumer took

readerVars == <<rcontent, rchunk, rpos, rbuffer, rout, rpc>>
pageVars   == <<pgfile, pgquery, pgresult, modalAll, modalOldestTs>>
bcastVars  == <<subscribers, queue, nqueues, conn, published, lastop>>
fileVars   == <<path, files, text, truncated, nenv, disturbed, moved>>
tailVars   == <<tail, recent_events, temit>>
scanVars   == <<scan, FULL_SCAN_TOTAL_BYTES, FULL_SCAN_READ_BYTES,
                FULL_SCAN_DONE, FULL_SCAN_ERR, semit>>
ingestVars == <<fileVars, running, tailVars, scanVars, AGG>>
indexVars  == <<applied, snap, MAX_HOSTS_PER_USER, call, heard>>
vars == <<readerVars, pageVars, bcastVars, ingestVars, indexVars>>

\* A component that a specification leaves out stays in its idle state.
ReaderIdle == /\ rcontent = <<>> /\ rchunk = 1 /\ rpos = 0
              /\ rbuffer = <<>> /\ rout = <<>> /\ rpc = "done"
PageIdle   == /\ pgfile = <<>> /\ pgquery = <<>> /\ pgresult = <<>>
              /\ modalAll = <<>> /\ modalOldestTs = <<>>
BcastIdle  == /\ subscribers = {} /\ queue = <<>> /\ nqueues = 0
              /\ conn = <<>> /\ published = <<>>
              /\ lastop = <<"none", 0>>

IndexIdle  == /\ applied = <<>> /\ snap = <<>> /\ call = <<>> /\ heard = <<>>
              /\ MAX_HOSTS_PER_USER = DEFAULT_MAX_HOSTS

NoError == "None"   \* FULL_SCAN_ERR = None

\* Module load: nothing is open, the tasks are not created yet.
tail_new == [pc |-> "top", f |-> 0, inode |-> 0, pos |-> 0, first_open |-> TRUE,
             cause |-> "first", skipped |-> {}, handles |-> 0, born |-> 0]
scan_new == [pc |-> "new", f |-> 0, pos |-> 0, stop_offset |-> 0, applied |-> 0,
             snap_ino |-> 0, snap_id |-> 0]

IngestRest ==
    /\ text = <<>> /\ truncated = {} /\ nenv = 0 /\ disturbed = FALSE /\ moved = FALSE
    /\ running = "boot"
    /\ tail = tail_new /\ recent_events = <<>> /\ temit = <<>>
    /\ scan = scan_new
    /\ FULL_SCAN_TOTAL_BYTES = 0 /\ FULL_SCAN_READ_BYTES = 0
    /\ FULL_SCAN_DONE = FALSE /\ FULL_SCAN_ERR = NoError
    /\ semit = <<>>
    /\ AGG = <<>>

IngestIdle == path = 0 /\ files = <<>> /\ IngestRest

\* The process starts with no log at the path, or with one (its lines are
\* what the writer appends before on_start runs).
IngestInit ==
    /\ \/ path = 0 /\ files = <<>>
       \/ path = 1 /\ files = << <<>> >>
    /\ IngestRest

\* ---------------------------------------------------- backward file reader
Reverse(s) == [i \in 1..Len(s) |-> s[Len(s) + 1 - i]]

Min(a, b) == IF a < b THEN a ELSE b

\* bytes.split(b"\n"): the pieces between newlines, always at least one.
RECURSIVE split(_)
split(s) ==
    LET p == find(s, NL)
    IN  IF p = 0 THEN <<s>>
        ELSE <<SubSeq(s, 1, p - 1)>> \o split(Drop(s, p + 1))

\* bytes.decode("utf-8", errors="ignore"): the bytes of the model are ASCII,
\* each of which decodes to itself.
decode(b) == b

ByteOf == {NL, "a", "b"}

RECURSIVE SeqsUpTo(_, _)
SeqsUpTo(S, n) ==
    IF n = 0 THEN {<<>>}
    ELSE LET shorter == SeqsUpTo(S, n - 1)
         IN  shorter \cup {Append(s, c) : s \in {t \in shorter : Len(t) = n - 1}, c \in S}

\* One pass of the while loop: what it leaves in pos and buffer, and what it
\* yields.  "*lines, buffer = buffer.split(b'\n')" keeps the LAST piece.
reader_chunk(content, chunk_size, pos, buffer) ==
    LET read_size == Min(chunk_size, pos)
        pos2      == pos - read_size
        data      == SubSeq(content, pos2 + 1, pos2 + read_size)
        pieces    == split(data \o buffer)
        lines     == SubSeq(pieces, 1, Len(pieces) - 1)
    IN  [pos |-> pos2, buffer |-> pieces[Len(pieces)],
         yields |-> [i \in 1..Len(lines) |-> decode(Reverse(lines)[i])]]

\* After the loop: the buffer is yielded when it is not empty.
reader_rest(buffer) == IF buffer # <<>> THEN <<decode(buffer)>> ELSE <<>>

\* Everything the generator yields when it is run to its end.
RECURSIVE iter_from(_, _, _, _)
iter_from(content, chunk_size, pos, buffer) ==
    IF pos > 0
    THEN LET r == reader_chunk(content, chunk_size, pos, buffer)
         IN  r.yields \o iter_from(content, chunk_size, r.pos, r.buffer)
    ELSE reader_rest(buffer)

_iter_file_backward(content, chunk_size) ==
    iter_from(content, chunk_size, Len(content), <<>>)

ReaderInit ==
    /\ rcontent \in SeqsUpTo(ByteOf, MaxBytes)
    /\ rchunk \in 1..MaxChunk
    /\ rpos = Len(rcontent)
    /\ rbuffer = <<>>
    /\ rout = <<>>
    /\ rpc = "loop"

ReaderChunk ==
    /\ rpc = "loop" /\ rpos > 0
    /\ LET r == reader_chunk(rcontent, rchunk, rpos, rbuffer)
       IN  /\ rpos' = r.pos
           /\ rbuffer' = r.buffer
           /\ rout' = rout \o r.yields
    /\ UNCHANGED <<rcontent, rchunk, rpc, pageVars, bcastVars, ingestVars, indexVars>>

ReaderFinish ==
    /\ rpc = "loop" /\ rpos = 0
    /\ rout' = rout \o reader_rest(rbuffer)
    /\ rpc' = "done"
    /\ UNCHANGED <<rcontent, rchunk, rpos, rbuffer, pageVars, bcastVars, ingestVars, indexVars>>

ReaderNext == ReaderChunk \/ ReaderFinish

InitReader == ReaderInit /\ PageIdle /\ BcastIdle /\ IngestIdle /\ IndexIdle

SpecReader == InitReader /\ [][ReaderNext]_vars

\* The newline-separated lines of a file, first line first: a final newline
\* ends the last line and starts no further one.
file_lines(content) ==
    LET pieces == split(content)
    IN  IF pieces[Len(pieces)] = <<>> THEN SubSeq(pieces, 1, Len(pieces) - 1)
        ELSE pieces

\* C3: when the backward reader has run to its end it has yielded exactly the
\* file's newline-separated lines, last line of the file first, each whole,
\* for every content and every chunk_size >= 1.
C3_ReaderYieldsLinesReversed ==
    rpc = "done" => rout = Reverse(file_lines(rcontent))

\* ---------------------------------------------------- historical paginator
\* tail_user_events: the loop over the reader's lines, each already parsed
\* (<<>> where parse_line gives None), left at the first moment
\* count >= limit; before_ts = <<>> stands for None (and for "").
RECURSIVE collect(_, _, _, _, _)
collect(evs, base, limit, before_ts, results) ==
    IF evs = <<>> THEN results
    ELSE LET ev == Head(evs) IN
             IF ev = <<>> THEN collect(Tail(evs), base, limit, before_ts, results)
             ELSE IF before_ts # <<>> /\ StrGeq(ev[1].ts, before_ts)
                  THEN collect(Tail(evs), base, limit, before_ts, results)
             ELSE IF base_user(ev[1].user) # base
                  THEN collect(Tail(evs), base, limit, before_ts, results)
             ELSE IF Len(results) + 1 >= limit THEN Append(results, ev[1])
             ELSE collect(Tail(evs), base, limit, before_ts, Append(results, ev[1]))

\* The lines a paged log is made of: events of base key a (written with and
\* without a session prefix) and of base key b, and a line outside the grammar.
PageLine ==
    { <<"0", "1", "|", "a", "|", "h">>,
      <<"0", "2", "|", "5", ".", "a", "|", "g">>,
      <<"0", "3", " ", "|", " ", "a", " ", "|", " ", "h">>,
      <<"0", "2", "|", "b", "|", "h">>,
      <<"x">> }

PageBase   == { <<"a">>, <<"b">> }
PageBefore == { <<>>, <<"0", "2">>, <<"0", "3">> }

RECURSIVE join_lines(_)
join_lines(ls) ==
    IF ls = <<>> THEN <<>> ELSE Head(ls) \o <<NL>> \o join_lines(Tail(ls))

\* A log of whole lines; the last one may still lack its newline.
PageFile ==
    LET whole == {join_lines(ls) : ls \in SeqsUpTo(PageLine, MaxPageLines)}
    IN  whole \cup {SubSeq(c, 1, Len(c) - 1) : c \in whole \ {<<>>}}

\* What the loop of tail_user_events sees of each log: the lines the reader
\* yields, stripped and parsed.
parsed_back ==
    [content \in PageFile |->
        [i \in 1..Len(_iter_file_backward(content, PAGE_CHUNK_SIZE)) |->
            parse_line(strip(_iter_file_backward(content, PAGE_CHUNK_SIZE)[i]))]]

tail_user_events(content, base, limit, before_ts) ==
    Reverse(collect(parsed_back[content], base, limit, before_ts, <<>>))

PageInit ==
    /\ pgfile \in PageFile
    /\ pgquery = <<>>
    /\ pgresult = <<>>
    /\ modalAll = <<>>
    /\ modalOldestTs = <<>>

PageCall ==
    \E base \in PageBase, limit \in 1..MaxLimit, before_ts \in PageBefore :
        /\ pgquery' = <<[base |-> base, limit |-> limit, before_ts |-> before_ts]>>
        /\ pgresult' = tail_user_events(pgfile, base, limit, before_ts)
        /\ UNCHANGED <<pgfile, modalAll, modalOldestTs,
                       readerVars, bcastVars, ingestVars, indexVars>>

PageNext == PageCall

InitPage == PageInit /\ ReaderIdle /\ BcastIdle /\ IngestIdle /\ IndexIdle

SpecPage == InitPage /\ [][PageNext]_vars

\* loadMore of the page's script: one more page of modalBase is fetched with
\* the cursor modalOldestTs (null before the first page); a page that is not
\* empty is joined to modalAll and the timestamp of its first item becomes
\* the cursor. The base and the page size stay the same from call to call.
loadMore ==
    \E base \in PageBase, limit \in 1..MaxLimit :
        /\ pgquery # <<>> => base = pgquery[1].base /\ limit = pgquery[1].limit
        /\ \E page \in {tail_user_events(pgfile, base, limit, modalOldestTs)} :
              /\ pgquery' = <<[base |-> base, limit |-> limit,
                               before_ts |-> modalOldestTs]>>
              /\ pgresult' = page
              /\ modalAll' = IF page # <<>> THEN modalAll \o page ELSE modalAll
              /\ modalOldestTs' = IF page # <<>> THEN page[1].ts ELSE modalOldestTs
        /\ UNCHANGED <<pgfile, readerVars, bcastVars, ingestVars, indexVars>>

ModalNext == loadMore

SpecModal == InitPage /\ [][ModalNext]_vars

\* The script keeps asking for the next page.
FairSpecModal == SpecModal /\ WF_vars(loadMore)

\* The events of base older than before_ts, in file order.
RECURSIVE matching(_, _, _)
matching(ls, base, before_ts) ==
    IF ls = <<>> THEN <<>>
    ELSE LET ev == parse_line(strip(Head(ls)))
             rest == matching(Tail(ls), base, before_ts)
         IN  IF /\ ev # <<>>
                /\ base_user(ev[1].user) = base
                /\ (before_ts = <<>> \/ StrLess(ev[1].ts, before_ts))
             THEN <<ev[1]>> \o rest
             ELSE rest

last_n(s, n) == SubSeq(s, Len(s) - Min(n, Len(s)) + 1, Len(s))

\* C4: a call of tail_user_events returns, in ascending file order, the
\* up-to-limit events nearest the end of the file whose base key is base and
\* whose timestamp is strictly below before_ts when one is given, skipping
\* the lines that do not parse.
C4_PageIsNearestMatchesAscending ==
    pgquery # <<>> =>
        pgresult = last_n(matching(file_lines(pgfile), pgquery[1].base,
                                   pgquery[1].before_ts),
                          pgquery[1].limit)

\* ------------------------------------------------------------- broadcaster
\* What the tailer hands to broadcast for an event.
message_of(ev) ==
    [ts |-> ev.ts, user |-> ev.user, base |-> base_user(ev.user), host |-> ev.host]

Msg == { message_of(parse_line(l)[1]) :
           l \in { <<"0", "1", "|", "a", "|", "h">>,
                   <<"0", "2", "|", "5", ".", "a", "|", "g">> } }

\* Broadcaster.subscribe: the registry after a fresh queue q has been added.
subscribe(subs, q) == subs \cup {q}

\* Broadcaster.unsubscribe: set.discard, no error when q is not registered.
unsubscribe(subs, q) == subs \ {q}

\* q.put_nowait raises QueueFull only for a bounded queue that is full.
\* The put_nowait of a queue that holds at most one message.
put_nowait_full_at_one(qu) == Len(qu) >= 1

put_nowait_raises(qu) == QUEUE_MAXSIZE > 0 /\ Len(qu) >= QUEUE_MAXSIZE

\* A broadcast that leaves out the subscriber with the smallest handle.
broadcast_skip_one(subs, qs, msg) ==
    IF subs = {} THEN [subscribers |-> subs, queue |-> qs]
    ELSE LET skipped == CHOOSE q \in subs : \A r \in subs : q <= r
         IN  [subscribers |-> subs,
              queue |-> [q \in DOMAIN qs |->
                           IF q \in subs \ {skipped} THEN Append(qs[q], msg) ELSE qs[q]]]

\* A broadcast that puts the message at the head of each queue.
broadcast_at_head(subs, qs, msg) ==
    [subscribers |-> subs,
     queue |-> [q \in DOMAIN qs |-> IF q \in subs THEN <<msg>> \o qs[q] ELSE qs[q]]]

\* Broadcaster.broadcast: the registry and the queues it leaves.
broadcast(subs, qs, msg) ==
    IF subs = {} THEN [subscribers |-> subs, queue |-> qs]
    ELSE LET dead == {q \in subs : put_nowait_raises(qs[q])}
         IN  [subscribers |-> subs \ dead,
              queue |-> [q \in DOMAIN qs |->
                           IF q \in subs \ dead THEN Append(qs[q], msg) ELSE qs[q]]]

BcastInit ==
    /\ subscribers = {}
    /\ queue = <<>>
    /\ nqueues = 0
    /\ conn = <<>>
    /\ published = <<>>
    /\ lastop = <<"none", 0>>

\* The broadcasts made so far: by Publish (published) and by the tailer (temit).
broadcasts == Len(published) + Len(temit)

Subscribe ==
    /\ nqueues < MaxSubs
    /\ nqueues' = nqueues + 1
    /\ queue' = Append(queue, <<>>)
    /\ subscribers' = subscribe(subscribers, nqueues + 1)
    /\ lastop' = <<"subscribe", nqueues + 1>>
    /\ heard' = Append(heard, [since |-> broadcasts, until |-> broadcasts - 1, got |-> <<>>])
    /\ UNCHANGED <<conn, published, readerVars, pageVars, ingestVars,
                   applied, snap, MAX_HOSTS_PER_USER, call>>

Unsubscribe ==
    \E q \in 1..nqueues :
        /\ subscribers' = unsubscribe(subscribers, q)
        /\ lastop' = <<"unsubscribe", q>>
        /\ heard' = IF q \in subscribers THEN [heard EXCEPT ![q].until = broadcasts]
                     ELSE heard
        /\ UNCHANGED <<queue, nqueues, conn, published, readerVars, pageVars, ingestVars,
                       applied, snap, MAX_HOSTS_PER_USER, call>>

Publish ==
    \E msg \in Msg :
        /\ Len(published) < MaxPub
        /\ LET r == broadcast(subscribers, queue, msg)
           IN  subscribers' = r.subscribers /\ queue' = r.queue
        /\ published' = Append(published, msg)
        /\ lastop' = <<"broadcast", 0>>
        /\ UNCHANGED <<nqueues, conn, readerVars, pageVars, ingestVars, indexVars>>

\* A consumer takes the oldest message of its queue (q.get).
Get ==
    \E q \in 1..nqueues :
        /\ queue[q] # <<>>
        /\ queue' = [queue EXCEPT ![q] = Tail(@)]
        /\ lastop' = <<"get", q>>
        /\ heard' = [heard EXCEPT ![q].got = Append(@, Head(queue[q]))]
        /\ UNCHANGED <<subscribers, nqueues, conn, published, readerVars, pageVars, ingestVars,
                       applied, snap, MAX_HOSTS_PER_USER, call>>

BcastNext == Subscribe \/ Unsubscribe \/ Publish \/ Get

InitBroadcaster == BcastInit /\ ReaderIdle /\ PageIdle /\ IngestIdle /\ IndexIdle

SpecBroadcaster == InitBroadcaster /\ [][BcastNext]_vars

\* C8: a publish appends the event exactly once to the queue of every
\* subscriber registered at the call and leaves every other queue as it was;
\* an unsubscribe removes its handle from the registry (and only it), whether
\* or not the handle was still registered, so a later publish never reaches it.
C8_PublishReachesExactlyRegistered ==
    [][ /\ lastop'[1] = "broadcast" =>
            /\ subscribers' = subscribers
            /\ \A q \in 1..nqueues :
                 queue'[q] = IF q \in subscribers
                             THEN Append(queue[q], published'[Len(published')])
                             ELSE queue[q]
        /\ lastop'[1] = "unsubscribe" =>
            /\ subscribers' = subscribers \ {lastop'[2]}
            /\ queue' = queue ]_vars

\* Three subscribers got the first event; the first one unsubscribed, and the
\* second event reached the remaining two only.
C8_Witness ==
    /\ nqueues = 3 /\ subscribers = {2, 3} /\ Len(published) = 2
    /\ queue[1] = <<published[1]>>
    /\ queue[2] = published /\ queue[3] = published

\* ------------------------------------------------------- SSE subscriptions
\* One api_events request per queue id.  Where the request stands:
\*   "pending"   subscribe() has run and StreamingResponse(gen()) was returned;
\*               gen() has not been iterated yet
\*   "waiting"   sse_event_generator waits in wait_for(q.get(), timeout)
\*   "yield_hdr" gen is suspended at "yield chunk" with b"event: message\n"
\*   "yield"     gen is suspended at "yield chunk" with any other chunk
\*   "closed"    gen's finally has run
\*   "dropped"   the response was given up before gen() was ever iterated:
\*               a generator that never started runs no finally
\* gone: the client has disconnected.
ApiEvents ==
    /\ nqueues < MaxConns
    /\ nqueues' = nqueues + 1
    /\ queue' = Append(queue, <<>>)
    /\ subscribers' = subscribe(subscribers, nqueues + 1)
    /\ conn' = Append(conn, [pc |-> "pending", gone |-> FALSE])
    /\ lastop' = <<"subscribe", nqueues + 1>>
    /\ UNCHANGED <<published, readerVars, pageVars, ingestVars, indexVars>>

ClientDisconnect ==
    \E c \in 1..nqueues :
        /\ conn[c].pc \notin {"closed", "dropped"} /\ ~conn[c].gone
        /\ conn' = [conn EXCEPT ![c].gone = TRUE]
        /\ UNCHANGED <<subscribers, queue, nqueues, published, lastop,
                       readerVars, pageVars, ingestVars, indexVars>>

\* gen() hands a chunk on: "if await request.is_disconnected(): break" leaves
\* the loop and runs the finally, else gen suspends at "yield chunk".
hand_on(c, pc_if_yielded) ==
    IF conn[c].gone
    THEN /\ conn' = [conn EXCEPT ![c].pc = "closed"]
         /\ subscribers' = unsubscribe(subscribers, c)
         /\ lastop' = <<"unsubscribe", c>>
    ELSE /\ conn' = [conn EXCEPT ![c].pc = pc_if_yielded]
         /\ UNCHANGED <<subscribers, lastop>>

\* The first iteration of gen(): sse_event_generator yields b": ok\n\n".
StreamStart ==
    \E c \in 1..nqueues :
        /\ conn[c].pc = "pending"
        /\ hand_on(c, "yield")
        /\ UNCHANGED <<queue, nqueues, published, readerVars, pageVars, ingestVars, indexVars>>

\* The client went away before the body was iterated: gen() is never started.
StreamDrop ==
    \E c \in 1..nqueues :
        /\ conn[c].pc = "pending" /\ conn[c].gone
        /\ conn' = [conn EXCEPT ![c].pc = "dropped"]
        /\ UNCHANGED <<subscribers, queue, nqueues, published, lastop,
                       readerVars, pageVars, ingestVars, indexVars>>

\* The consumer asks for the next chunk.
Resume ==
    \E c \in 1..nqueues :
        /\ \/ /\ conn[c].pc = "yield"
              /\ conn' = [conn EXCEPT ![c].pc = "waiting"]
              /\ UNCHANGED <<subscribers, lastop>>
           \/ /\ conn[c].pc = "yield_hdr"
              /\ hand_on(c, "yield")
        /\ UNCHANGED <<queue, nqueues, published, readerVars, pageVars, ingestVars, indexVars>>

\* q.get() returns a message.
Deliver ==
    \E c \in 1..nqueues :
        /\ conn[c].pc = "waiting" /\ queue[c] # <<>>
        /\ queue' = [queue EXCEPT ![c] = Tail(@)]
        /\ hand_on(c, "yield_hdr")
        /\ UNCHANGED <<nqueues, published, readerVars, pageVars, ingestVars, indexVars>>

\* wait_for times out after SSE_HEARTBEAT_SEC: b": ping\n\n".
Heartbeat ==
    \E c \in 1..nqueues :
        /\ conn[c].pc = "waiting" /\ queue[c] = <<>>
        /\ hand_on(c, "yield")
        /\ UNCHANGED <<queue, nqueues, published, readerVars, pageVars, ingestVars, indexVars>>

\* The request's task is cancelled: inside wait_for the CancelledError ends
\* sse_event_generator, gen's loop ends and its finally runs; at a yield the
\* suspended generator is closed (aclose) and its finally runs.
Cancel ==
    \E c \in 1..nqueues :
        /\ conn[c].gone /\ conn[c].pc \in {"waiting", "yield", "yield_hdr"}
        /\ conn' = [conn EXCEPT ![c].pc = "closed"]
        /\ subscribers' = unsubscribe(subscribers, c)
        /\ lastop' = <<"unsubscribe", c>>
        /\ UNCHANGED <<queue, nqueues, published, readerVars, pageVars, ingestVars, indexVars>>

SseNext ==
    \/ ApiEvents \/ ClientDisconnect \/ StreamStart \/ StreamDrop
    \/ Resume \/ Deliver \/ Heartbeat \/ Cancel \/ Publish

InitSse == BcastInit /\ ReaderIdle /\ PageIdle /\ IngestIdle /\ IndexIdle

SpecSse == InitSse /\ [][SseNext]_vars

\* C9: a live-subscription request whose life is over (its delivery loop has
\* ended, or its client left before the loop ever started) has no
\* registration left in the broadcaster.
C9_NoDanglingRegistration ==
    \A c \in 1..nqueues :
        conn[c].pc \in {"closed", "dropped"} => c \notin subscribers

\* --------------------------------------------------------------- ingestion
\* The lines the external writer writes: two events of base key a (one with
\* a session prefix) and a line outside the grammar.
IngestLine ==
    { <<"0", "1", "|", "a", "|", "h">>,
      <<"0", "2", "|", "5", ".", "a", "|", "g">>,
      <<"x">> }

noIngest == <<readerVars, pageVars, nqueues, conn, published, lastop, indexVars>>

\* parse_line on each line the writer writes, computed once.
parsed_line == [l \in IngestLine |-> parse_line(l)]

\* f.readline() at offset pos: the next line with its newline, or '' at the end.
readline(f, pos) ==
    IF pos < Len(files[f]) THEN text[files[f][pos + 1]] \o <<NL>> ELSE <<>>

\* line.rstrip("\n")
RECURSIVE rstrip_nl(_)
rstrip_nl(s) ==
    IF s # <<>> /\ s[Len(s)] = NL THEN rstrip_nl(SubSeq(s, 1, Len(s) - 1)) ELSE s

\* An append that evicts nothing.
append_recent_unbounded(d, ev) == Append(d, ev)

\* An append that is left out.
append_recent_skipped(d, ev) == d

\* deque(maxlen=MAX_RECENT_EVENTS).append
append_recent(d, ev) ==
    IF Len(d) >= MAX_RECENT_EVENTS THEN Append(Tail(d), ev) ELSE Append(d, ev)

\* ---- the external writer (another process: it runs at any moment)
WCreate ==
    /\ path = 0 /\ nenv < MaxEnvOps
    /\ nenv' = nenv + 1
    /\ disturbed' = (disturbed \/ running # "boot")
    /\ moved' = (moved \/ running # "boot")
    /\ files' = Append(files, <<>>)
    /\ path' = Len(files) + 1
    /\ UNCHANGED <<text, truncated, running, tailVars, scanVars, AGG,
                   subscribers, queue, noIngest>>

WAppend ==
    \E l \in IngestLine :
        /\ path # 0 /\ Len(text) < MaxLines
        /\ text' = Append(text, l)
        /\ files' = [files EXCEPT ![path] = Append(@, Len(text) + 1)]
        /\ UNCHANGED <<path, truncated, nenv, disturbed, moved, running, tailVars, scanVars, AGG,
                       subscribers, queue, noIngest>>

\* Rotation: the old file is moved away, a new empty file takes the path.
WRotate ==
    /\ path # 0 /\ nenv < MaxEnvOps
    /\ nenv' = nenv + 1
    /\ disturbed' = (disturbed \/ running # "boot")
    /\ moved' = (moved \/ running # "boot")
    /\ files' = Append(files, <<>>)
    /\ path' = Len(files) + 1
    /\ UNCHANGED <<text, truncated, running, tailVars, scanVars, AGG,
                   subscribers, queue, noIngest>>

WRemove ==
    /\ path # 0 /\ nenv < MaxEnvOps
    /\ nenv' = nenv + 1
    /\ disturbed' = (disturbed \/ running # "boot")
    /\ moved' = (moved \/ running # "boot")
    /\ path' = 0
    /\ UNCHANGED <<files, text, truncated, running, tailVars, scanVars, AGG,
                   subscribers, queue, noIngest>>

\* Truncation in place: same inode, size 0.
WTruncate ==
    /\ path # 0 /\ files[path] # <<>> /\ nenv < MaxEnvOps
    /\ nenv' = nenv + 1
    /\ disturbed' = (disturbed \/ running # "boot")
    /\ moved' = (moved \/ running # "boot")
    /\ files' = [files EXCEPT ![path] = <<>>]
    /\ truncated' = truncated \cup {path}
    /\ UNCHANGED <<path, text, running, tailVars, scanVars, AGG,
                   subscribers, queue, noIngest>>

\* ---- on_start: tail_file is created first, so it is the first to run
Start ==
    /\ running = "boot"
    /\ running' = "tail"
    /\ tail' = [tail EXCEPT !.born = Len(text)]
    /\ UNCHANGED <<fileVars, recent_events, temit, scanVars, AGG,
                   subscribers, queue, noIngest>>

\* A tailer that takes a changed inode for no news and sleeps.
TailStat_blind ==
    /\ running = "tail" /\ tail.pc = "stat"
    /\ IF path = 0
       THEN /\ tail' = [tail EXCEPT !.f = 0, !.inode = 0, !.pc = "sleep",
                                    !.cause = "missing", !.handles = 0]
            /\ running' = "idle"
       ELSE /\ tail' = [tail EXCEPT !.pc = "sleep"]
            /\ running' = "idle"
    /\ UNCHANGED <<fileVars, recent_events, temit, scanVars, AGG,
                   subscribers, queue, noIngest>>

\* ---- tail_file
\* "if f is None": open, fstat, seek to the end (first open) or to 0.
TailOpen ==
    /\ running = "tail" /\ tail.pc = "top" /\ tail.f = 0
    /\ IF path = 0
       THEN \* FileNotFoundError: sleep(0.5)
            /\ tail' = [tail EXCEPT !.pc = "sleep"]
            /\ running' = "idle"
       ELSE /\ tail' = [tail EXCEPT !.f = path, !.inode = path,
                           !.pos = IF tail.first_open THEN Len(files[path]) ELSE 0,
                           !.first_open = FALSE, !.handles = tail.handles + 1,
                           !.skipped = IF tail.first_open THEN Range(files[path])
                                       ELSE tail.skipped]
            /\ UNCHANGED running
    /\ UNCHANGED <<fileVars, recent_events, temit, scanVars, AGG,
                   subscribers, queue, noIngest>>

\* "line = f.readline()" and what follows it up to the next readline.
TailRead ==
    /\ running = "tail" /\ tail.pc = "top" /\ tail.f # 0
    /\ \E line \in {readline(tail.f, tail.pos)} :
           IF line # <<>>
           THEN \E ev \in {parsed_line[rstrip_nl(line)]} :
                /\ tail' = [tail EXCEPT !.pos = tail.pos + 1]
                /\ IF ev # <<>>
                   THEN /\ recent_events' = append_recent(recent_events, ev[1])
                        /\ AGG' = _apply_event_to_agg(AGG, ev[1])
                        /\ LET r == broadcast(subscribers, queue, message_of(ev[1]))
                           IN  subscribers' = r.subscribers /\ queue' = r.queue
                        /\ temit' = Append(temit, files[tail.f][tail.pos + 1])
                   ELSE UNCHANGED <<recent_events, AGG, subscribers, queue, temit>>
           ELSE /\ tail' = [tail EXCEPT !.pc = "stat"]
                /\ UNCHANGED <<recent_events, AGG, subscribers, queue, temit>>
    /\ UNCHANGED <<fileVars, running, scanVars, noIngest>>

\* No new data: "cur_inode = os.stat(path).st_ino".
TailStat ==
    /\ running = "tail" /\ tail.pc = "stat"
    /\ IF path = 0
       THEN \* FileNotFoundError: close, sleep(0.5)
            /\ tail' = [tail EXCEPT !.f = 0, !.inode = 0, !.pc = "sleep",
                                    !.cause = "missing", !.handles = 0]
            /\ running' = "idle"
       ELSE IF tail.inode # 0 /\ path # tail.inode
       THEN \* rotation: close, continue
            /\ tail' = [tail EXCEPT !.f = 0, !.inode = 0, !.pc = "top",
                                    !.cause = "rotated", !.handles = 0]
            /\ UNCHANGED running
       ELSE \* sleep(0.2)
            /\ tail' = [tail EXCEPT !.pc = "sleep"]
            /\ running' = "idle"
    /\ UNCHANGED <<fileVars, recent_events, temit, scanVars, AGG,
                   subscribers, queue, noIngest>>

\* An error handler that forgets the file without closing it.
TailError_no_close ==
    /\ running = "tail" /\ tail.pc \in {"top", "stat"} /\ nenv < MaxEnvOps
    /\ nenv' = nenv + 1
    /\ disturbed' = (disturbed \/ running # "boot")
    /\ moved' = moved
    /\ tail' = [tail EXCEPT !.f = 0, !.inode = 0, !.pc = "sleep", !.cause = "error"]
    /\ running' = "idle"
    /\ UNCHANGED <<path, files, text, truncated, recent_events, temit, scanVars, AGG,
                   subscribers, queue, noIngest>>

\* Any other exception of open, readline or stat: "if f: f.close()" (an
\* exception of close is swallowed), f = None, sleep(1.0).
TailError ==
    /\ running = "tail" /\ tail.pc \in {"top", "stat"} /\ nenv < MaxEnvOps
    /\ nenv' = nenv + 1
    /\ disturbed' = (disturbed \/ running # "boot")
    /\ moved' = moved
    /\ tail' = [tail EXCEPT !.f = 0, !.inode = 0, !.pc = "sleep", !.cause = "error",
                            !.handles = 0]
    /\ running' = "idle"
    /\ UNCHANGED <<path, files, text, truncated, recent_events, temit, scanVars, AGG,
                   subscribers, queue, noIngest>>

\* A sleep of the tailer ends.  The scanner's first step was queued at
\* on_start, ahead of every timer.
TailWake ==
    /\ running = "idle" /\ tail.pc = "sleep" /\ scan.pc # "new"
    /\ running' = "tail"
    /\ tail' = [tail EXCEPT !.pc = "top"]
    /\ UNCHANGED <<fileVars, recent_events, temit, scanVars, AGG,
                   subscribers, queue, noIngest>>

\* A failure that marks the scan done and records no error.
scan_fail_no_error(msg) ==
    /\ FULL_SCAN_DONE' = TRUE
    /\ FULL_SCAN_ERR' = NoError
    /\ scan' = [scan EXCEPT !.pc = "done", !.f = 0]
    /\ running' = "idle"

\* ---- full_scan_file
scan_fail(msg) ==
    /\ FULL_SCAN_DONE' = TRUE
    /\ FULL_SCAN_ERR' = msg
    /\ scan' = [scan EXCEPT !.pc = "done", !.f = 0]
    /\ running' = "idle"

\* The resets of the globals and "st = os.stat(path)".
ScanStart ==
    /\ running = "idle" /\ scan.pc = "new"
    /\ IF path = 0
       THEN /\ scan_fail("log not found")
            /\ FULL_SCAN_TOTAL_BYTES' = 0
       ELSE /\ scan' = [scan EXCEPT !.pc = "open", !.stop_offset = Len(files[path]),
                                    !.snap_ino = path, !.snap_id = Len(text)]
            /\ FULL_SCAN_TOTAL_BYTES' = Len(files[path])
            /\ FULL_SCAN_DONE' = FALSE
            /\ FULL_SCAN_ERR' = NoError
            /\ running' = "scan"
    /\ FULL_SCAN_READ_BYTES' = 0
    /\ UNCHANGED <<fileVars, tailVars, semit, AGG,
                   subscribers, queue, noIngest>>

\* "with open(path, ...) as f"
ScanOpen ==
    /\ running = "scan" /\ scan.pc = "open"
    /\ IF path = 0
       THEN scan_fail("log not found")
       ELSE /\ scan' = [scan EXCEPT !.pc = "loop", !.f = path, !.pos = 0]
            /\ UNCHANGED <<FULL_SCAN_DONE, FULL_SCAN_ERR, running>>
    /\ UNCHANGED <<fileVars, tailVars, FULL_SCAN_TOTAL_BYTES,
                   FULL_SCAN_READ_BYTES, semit, AGG, subscribers, queue, noIngest>>

\* A pass of the loop with neither the break at stop_offset nor the min().
scan_loop_unclamped ==
    \E pos_before \in {scan.pos} :
    \E line \in {readline(scan.f, scan.pos)} :
        IF line = <<>>
        THEN /\ FULL_SCAN_READ_BYTES' = FULL_SCAN_TOTAL_BYTES
             /\ FULL_SCAN_DONE' = TRUE
             /\ scan' = [scan EXCEPT !.pc = "done", !.f = 0]
             /\ running' = "idle"
             /\ UNCHANGED <<semit, AGG>>
        ELSE \E ev \in {parsed_line[rstrip_nl(line)]} :
             /\ FULL_SCAN_READ_BYTES' = pos_before
             /\ UNCHANGED <<FULL_SCAN_DONE, running>>
             /\ scan' = [scan EXCEPT !.pos = scan.pos + 1]
             /\ IF ev # <<>>
                THEN /\ AGG' = _apply_event_to_agg(AGG, ev[1])
                     /\ semit' = Append(semit, [id |-> files[scan.f][scan.pos + 1],
                                                off |-> pos_before])
                ELSE UNCHANGED <<semit, AGG>>

\* A pass of the loop without "if pos_before >= stop_offset: break": it reads
\* to the end of the file.
scan_loop_unbounded ==
    \E pos_before \in {scan.pos} :
    \E line \in {readline(scan.f, scan.pos)} :
        IF line = <<>>
        THEN /\ FULL_SCAN_READ_BYTES' = FULL_SCAN_TOTAL_BYTES
             /\ FULL_SCAN_DONE' = TRUE
             /\ scan' = [scan EXCEPT !.pc = "done", !.f = 0]
             /\ running' = "idle"
             /\ UNCHANGED <<semit, AGG>>
        ELSE \E ev \in {parsed_line[rstrip_nl(line)]} :
             /\ FULL_SCAN_READ_BYTES' = Min(pos_before, scan.stop_offset)
             /\ UNCHANGED <<FULL_SCAN_DONE, running>>
             /\ scan' = [scan EXCEPT !.pos = scan.pos + 1]
             /\ IF ev # <<>>
                THEN /\ AGG' = _apply_event_to_agg(AGG, ev[1])
                     /\ semit' = Append(semit, [id |-> files[scan.f][scan.pos + 1],
                                                off |-> pos_before])
                ELSE UNCHANGED <<semit, AGG>>

\* A pass of the loop whose exit forgets
\* "FULL_SCAN_READ_BYTES = FULL_SCAN_TOTAL_BYTES".
scan_loop_no_final_read ==
    \E pos_before \in {scan.pos} :
    \E line \in {readline(scan.f, scan.pos)} :
        IF pos_before >= scan.stop_offset
        THEN /\ FULL_SCAN_DONE' = TRUE
             /\ scan' = [scan EXCEPT !.pc = "done", !.f = 0]
             /\ running' = "idle"
             /\ UNCHANGED <<FULL_SCAN_READ_BYTES, semit, AGG>>
        ELSE IF line = <<>>
        THEN /\ scan' = [scan EXCEPT !.pc = "sleep"]
             /\ running' = "idle"
             /\ UNCHANGED <<FULL_SCAN_READ_BYTES, FULL_SCAN_DONE, semit, AGG>>
        ELSE \E ev \in {parsed_line[rstrip_nl(line)]} :
             /\ FULL_SCAN_READ_BYTES' = Min(pos_before, scan.stop_offset)
             /\ UNCHANGED <<FULL_SCAN_DONE, running>>
             /\ scan' = [scan EXCEPT !.pos = scan.pos + 1]
             /\ IF ev # <<>>
                THEN /\ AGG' = _apply_event_to_agg(AGG, ev[1])
                     /\ semit' = Append(semit, [id |-> files[scan.f][scan.pos + 1],
                                                off |-> pos_before])
                ELSE UNCHANGED <<semit, AGG>>

\* One pass of "while True".
scan_loop ==
    \E pos_before \in {scan.pos} :
    \E line \in {readline(scan.f, scan.pos)} :
        IF pos_before >= scan.stop_offset
        THEN \* break; the lines after the with block
             /\ FULL_SCAN_READ_BYTES' = FULL_SCAN_TOTAL_BYTES
             /\ FULL_SCAN_DONE' = TRUE
             /\ scan' = [scan EXCEPT !.pc = "done", !.f = 0]
             /\ running' = "idle"
             /\ UNCHANGED <<semit, AGG>>
        ELSE IF line = <<>>
        THEN \* sleep(0.05); continue
             /\ scan' = [scan EXCEPT !.pc = "sleep"]
             /\ running' = "idle"
             /\ UNCHANGED <<FULL_SCAN_READ_BYTES, FULL_SCAN_DONE, semit, AGG>>
        ELSE \E ev \in {parsed_line[rstrip_nl(line)]} :
             /\ FULL_SCAN_READ_BYTES' = Min(pos_before, scan.stop_offset)
             /\ UNCHANGED FULL_SCAN_DONE
             /\ IF ev # <<>>
                THEN /\ AGG' = _apply_event_to_agg(AGG, ev[1])
                     /\ semit' = Append(semit, [id |-> files[scan.f][scan.pos + 1],
                                                off |-> pos_before])
                     /\ IF (scan.applied + 1) % FULL_SCAN_SLEEP_EVERY = 0
                        THEN /\ scan' = [scan EXCEPT !.pos = scan.pos + 1,
                                                     !.applied = scan.applied + 1,
                                                     !.pc = "sleep"]
                             /\ running' = "idle"
                        ELSE /\ scan' = [scan EXCEPT !.pos = scan.pos + 1,
                                                     !.applied = scan.applied + 1]
                             /\ UNCHANGED running
                ELSE /\ scan' = [scan EXCEPT !.pos = scan.pos + 1]
                     /\ UNCHANGED <<semit, AGG, running>>

\* A scanner that also appends the events it applies to the ring.
ScanLoop_into_ring ==
    /\ running = "scan" /\ scan.pc = "loop"
    /\ scan_loop
    /\ recent_events' =
           IF Len(semit') > Len(semit)
           THEN append_recent(recent_events, parsed_line[text[semit'[Len(semit')].id]][1])
           ELSE recent_events
    /\ UNCHANGED <<fileVars, tail, temit, FULL_SCAN_TOTAL_BYTES, FULL_SCAN_ERR,
                   subscribers, queue, noIngest>>

ScanLoop ==
    /\ running = "scan" /\ scan.pc = "loop"
    /\ scan_loop
    /\ UNCHANGED <<fileVars, tailVars, FULL_SCAN_TOTAL_BYTES, FULL_SCAN_ERR,
                   subscribers, queue, noIngest>>

\* Any other exception of open or readline: "except Exception".
ScanError ==
    /\ running = "scan" /\ scan.pc \in {"open", "loop"} /\ nenv < MaxEnvOps
    /\ nenv' = nenv + 1
    /\ disturbed' = (disturbed \/ running # "boot")
    /\ moved' = moved
    /\ scan_fail("error")
    /\ UNCHANGED <<path, files, text, truncated, tailVars, FULL_SCAN_TOTAL_BYTES,
                   FULL_SCAN_READ_BYTES, semit, AGG, subscribers, queue, noIngest>>

\* A sleep of the scanner ends.
ScanWake ==
    /\ running = "idle" /\ scan.pc = "sleep"
    /\ running' = "scan"
    /\ scan' = [scan EXCEPT !.pc = "loop"]
    /\ UNCHANGED <<fileVars, tailVars, FULL_SCAN_TOTAL_BYTES,
                   FULL_SCAN_READ_BYTES, FULL_SCAN_DONE, FULL_SCAN_ERR, semit, AGG,
                   subscribers, queue, noIngest>>

Writer  == WCreate \/ WAppend \/ WRotate \/ WRemove \/ WTruncate
Tailer  == TailOpen \/ TailRead \/ TailStat \/ TailError \/ TailWake
Scanner == ScanStart \/ ScanOpen \/ ScanLoop \/ ScanError \/ ScanWake

IngestNext == Writer \/ Start \/ Tailer \/ Scanner

InitIngest == IngestInit /\ BcastIdle /\ ReaderIdle /\ PageIdle /\ IndexIdle

Spec == InitIngest /\ [][IngestNext]_vars

\* The event loop runs every task that is ready: the task that holds the
\* loop takes its next step, and a task whose sleep has ended, or that
\* on_start queued, gets the loop again however often the other task takes it
\* first.  Nothing is assumed of the writer, nor that an I/O error occurs.
Holder == Start \/ TailOpen \/ TailRead \/ TailStat \/ ScanOpen \/ ScanLoop

Fairness ==
    /\ WF_vars(Holder)
    /\ SF_vars(ScanStart \/ ScanWake)
    /\ SF_vars(TailWake)

FairSpec == InitIngest /\ [][IngestNext]_vars /\ Fairness

\* ------------------------------------------------------ ingestion: claims
valid_line(id) == parsed_line[text[id]] # <<>>
base_of_line(id) == base_user(parsed_line[text[id]][1].user)

\* C1: with a writer that only appends, no line is applied to the index by
\* both the tailer and the scanner.
C1_NoLineAppliedByBothPaths ==
    ~disturbed => \A i \in 1..Len(temit), j \in 1..Len(semit) : temit[i] # semit[j].id

\* C1 is refuted by appends that fall after the tailer's seek to the end and
\* before the scanner's stat; the double application is there:
C1_DoubleApplied ==
    /\ ~disturbed
    /\ \E i \in 1..Len(temit), j \in 1..Len(semit) : temit[i] = semit[j].id

\* C2: rotation.  (a) When the tailer, out of data, stats the path and finds
\* another inode than the one it recorded, it closes its handle and goes back
\* to opening; (b) the open that follows starts at offset 0 of the file then
\* at the path; (c) from there it skips no line: every valid line below its
\* offset in the replacement file has been applied and broadcast; (d) after a
\* rotation it applies no line it had applied before; (e) under fair
\* scheduling, whenever the path holds another file than the one the tailer
\* reads, the tailer comes to read the file at the path up to its end (or the
\* path comes to hold no file).
C2_Detects ==
    (tail.pc = "stat" /\ tail' # tail /\ nenv' = nenv
        /\ path # 0 /\ tail.inode # 0 /\ path # tail.inode)
    => (tail'.f = 0 /\ tail'.inode = 0 /\ tail'.pc = "top" /\ tail'.cause = "rotated")

C2_ReopensAtZero ==
    (tail.f = 0 /\ tail'.f # 0 /\ tail.cause = "rotated")
    => (tail'.pos = 0 /\ tail'.f = path /\ tail'.inode = path)

C2_SkipsNothing ==
    (tail.f # 0 /\ tail.cause = "rotated" /\ tail.f \notin truncated)
    => \A i \in 1..Min(tail.pos, Len(files[tail.f])) :
          valid_line(files[tail.f][i]) => files[tail.f][i] \in Range(temit)

C2_EmitsNothingTwice ==
    (temit' # temit /\ tail.cause = "rotated")
    => temit'[Len(temit')] \notin Range(temit)

C2_Replaced == tail.f # 0 /\ path # 0 /\ path # tail.f

C2_CaughtUp == path = 0 \/ (tail.f = path /\ tail.pos >= Len(files[path]))

C2_Rotation ==
    /\ []C2_SkipsNothing
    /\ [][C2_Detects /\ C2_ReopensAtZero /\ C2_EmitsNothingTwice]_vars
    /\ (C2_Replaced ~> C2_CaughtUp)

\* The tailer has applied a line of the old file and, after a rotation, the
\* line of the replacement file from its offset 0.
C2_Witness ==
    /\ tail.cause = "rotated" /\ tail.f = 2 /\ tail.pos = 1
    /\ Len(temit) = 2 /\ temit[1] \in Range(files[1]) /\ temit[2] \in Range(files[2])

scan_file_intact == scan.f # 0 /\ scan.f = scan.snap_ino /\ scan.f \notin truncated

C7_Final ==
    (scan.pc = "done" /\ FULL_SCAN_ERR = NoError)
    => /\ FULL_SCAN_DONE
       /\ FULL_SCAN_READ_BYTES = FULL_SCAN_TOTAL_BYTES
       /\ FULL_SCAN_TOTAL_BYTES = scan.stop_offset

C7_CompletedScanProgress ==
    /\ []C7_Final
    /\ [][FULL_SCAN_DONE => FULL_SCAN_DONE']_vars

C7_Witness ==
    /\ scan.pc = "done" /\ FULL_SCAN_ERR = NoError /\ FULL_SCAN_DONE
    /\ FULL_SCAN_READ_BYTES = 2 /\ Len(semit) = 2

\* C10: for every base key, the record's count is the number of events the
\* tailer and the scanner together applied for that key; a key has a record
\* exactly when an event was applied for it, no record has count 0, and no
\* step removes a record or lowers its count.
applied_for(b) ==
    Cardinality({i \in 1..Len(temit) : base_of_line(temit[i]) = b})
    + Cardinality({j \in 1..Len(semit) : base_of_line(semit[j].id) = b})

C10_Counts ==
    /\ \A b \in DOMAIN AGG : AGG[b].count = applied_for(b) /\ AGG[b].count >= 1
    /\ \A id \in Range(temit) \cup {e.id : e \in Range(semit)} :
          base_of_line(id) \in DOMAIN AGG

C10_NeverDecreases ==
    \A b \in DOMAIN AGG : b \in DOMAIN AGG' /\ AGG'[b].count >= AGG[b].count

C10_CountIsEventsApplied == []C10_Counts /\ [][C10_NeverDecreases]_vars

\* Both writers have applied events for base key a.
C10_Witness ==
    /\ <<"a">> \in DOMAIN AGG /\ AGG[<<"a">>].count = 3
    /\ Len(temit) >= 1 /\ Len(semit) >= 1

\* C6: under fair scheduling of the two tasks, the scanner eventually sets
\* FULL_SCAN_DONE, whatever the writer does to the file.
C6_ScanEventuallyDone == <>FULL_SCAN_DONE

\* Where C6 fails: the file was cut below stopOffset; the scanner sleeps at
\* the end of the data, short of stopOffset, with FULL_SCAN_DONE false.
C6_ScanStarved ==
    /\ scan.pc = "sleep" /\ ~FULL_SCAN_DONE /\ nenv = MaxEnvOps
    /\ scan.f \in truncated
    /\ scan.pos >= Len(files[scan.f]) /\ scan.pos < scan.stop_offset

\* ------------------------------------- the index, its writers and /api/users
\* The events the two writers apply: what parse_line made of the lines they
\* read.  Two events of base key a tie on the timestamp with different hosts,
\* a third host exceeds MAX_HOSTS_PER_USER, "09" < "10" only as strings of
\* equal width, and B differs from b by case only.
IndexEvent ==
    { [ts |-> <<"1", "0">>, user |-> <<"a">>,           host |-> <<"h">>],
      [ts |-> <<"1", "0">>, user |-> <<"5", ".", "a">>, host |-> <<"k">>],
      [ts |-> <<"0", "9">>, user |-> <<"a">>,           host |-> <<"g">>],
      [ts |-> <<"0", "2">>, user |-> <<"B">>,           host |-> <<"h">>] }

\* str.lower()
lower_char(c) ==
    CASE c = "A" -> "a" [] c = "B" -> "b" [] c = "G" -> "g" [] c = "H" -> "h"
      [] c = "K" -> "k" [] OTHER -> c

lower(s) == [i \in 1..Len(s) |-> lower_char(s[i])]

\* s.find(sub) != -1
contains(s, sub) ==
    \E i \in 0..(Len(s) - Len(sub)) : SubSeq(s, i + 1, i + Len(sub)) = sub

\* The flagged substring of api_users ('porn').
FLAGGED == <<"p", "o", "r", "n">>

\* The sequences that hold every element of S once.
Perms(S) ==
    {q \in [1..Cardinality(S) -> S] : \A i, j \in 1..Cardinality(S) : q[i] = q[j] => i = j}

\* sorted(S) for a set of str
sorted(S) == CHOOSE q \in Perms(S) : \A i \in 1..(Len(q) - 1) : StrLess(q[i], q[i + 1])

\* One item of api_users: the projection of record a of base b; hosts is
\* list(a["hosts"])[:MAX_HOSTS_PER_USER].
snap_item(b, a, hosts) ==
    LET display == IF a.variants # {} THEN sorted(a.variants) ELSE <<b>>
        flagged == {i \in 1..Len(hosts) : hosts[i] # <<>> /\ contains(lower(hosts[i]), FLAGGED)}
        prio    == IF flagged = {} THEN <<>>
                   ELSE hosts[CHOOSE i \in flagged : \A j \in flagged : i <= j]
    IN  [base |-> b, display_names |-> display, count |-> a.count,
         last_ts |-> a.last_ts,
         sample_host |-> IF prio # <<>> THEN prio ELSE a.sample_host,
         hosts |-> hosts]

\* "if uq" and "if sq": the two filters, on the stripped lower-case queries.
passes(it, uq, sq) ==
    /\ uq # <<>> =>
          \/ contains(lower(it.base), uq)
          \/ \E i \in 1..Len(it.display_names) : contains(lower(it.display_names[i]), uq)
    /\ sq # <<>> => \E i \in 1..Len(it.hosts) : contains(lower(it.hosts[i]), sq)

\* A sort without reverse=True.
sorted_asc(q) == \A i \in 1..(Len(q) - 1) : ~StrGreater(q[i].last_ts, q[i + 1].last_ts)

\* items.sort(key=last_ts, reverse=True): q is ordered by last_ts, descending.
sorted_desc(q) == \A i \in 1..(Len(q) - 1) : ~StrLess(q[i].last_ts, q[i + 1].last_ts)

\* api_users: the results the handler can return.  The iteration order of a
\* set of hosts is any order; records with equal last_ts keep the order of
\* the dict, which is taken here to be any order.
api_users(agg, user_q, site_q, limit) ==
    LET uq == lower(strip(user_q))
        sq == lower(strip(site_q))
        all  == UNION {Perms(agg[b].hosts) : b \in DOMAIN agg}
        good == {o \in [DOMAIN agg -> all] : \A b \in DOMAIN agg : Range(o[b]) = agg[b].hosts}
        cut(q) == SubSeq(q, 1, Min(MAX_HOSTS_PER_USER, Len(q)))
    IN  UNION { LET items == {snap_item(b, agg[b], cut(o[b])) : b \in DOMAIN agg}
                    kept  == {it \in items : passes(it, uq, sq)}
                IN  {SubSeq(q, 1, Min(limit, Len(q))) : q \in {r \in Perms(kept) : sorted_desc(r)}}
              : o \in good }

SnapUserQ == { <<>>, <<" ", "A">>, <<"b">>, <<"5">> }
SnapSiteQ == { <<>>, <<"H">>, <<"g">> }

\* ---- the steps
\* The tailer read a line that parsed to ev: lines 273-278 of tail_file.
IndexTail ==
    \E ev \in IndexEvent :
        /\ Len(applied) < MaxApply
        /\ recent_events' = append_recent(recent_events, ev)
        /\ AGG' = _apply_event_to_agg(AGG, ev)
        /\ LET r == broadcast(subscribers, queue, message_of(ev))
           IN  subscribers' = r.subscribers /\ queue' = r.queue
        /\ applied' = Append(applied, [by |-> "tail", ev |-> ev])
        /\ snap' = <<>>
        /\ UNCHANGED <<MAX_HOSTS_PER_USER, call, heard, readerVars, pageVars, nqueues, conn,
                       published, lastop, fileVars, running, tail, temit, scanVars>>

\* The scanner read a line that parsed to ev: lines 196-198 of full_scan_file.
IndexScan ==
    \E ev \in IndexEvent :
        /\ Len(applied) < MaxApply
        /\ AGG' = _apply_event_to_agg(AGG, ev)
        /\ applied' = Append(applied, [by |-> "scan", ev |-> ev])
        /\ snap' = <<>>
        /\ UNCHANGED <<MAX_HOSTS_PER_USER, call, heard, readerVars, pageVars, bcastVars,
                       fileVars, running, tailVars, scanVars>>

\* GET /api/users.  A call that follows another call reads the same index, so
\* one call is taken between two steps of the writers.
ApiUsers ==
    /\ snap = <<>>
    /\ \E user_q \in SnapUserQ, site_q \in SnapSiteQ, limit \in 1..MaxSnapLimit :
       \E items \in api_users(AGG, user_q, site_q, limit) :
        /\ snap' = << [user_q |-> user_q, site_q |-> site_q, limit |-> limit,
                       items |-> items] >>
        /\ UNCHANGED <<applied, MAX_HOSTS_PER_USER, call, heard, readerVars, pageVars, bcastVars,
                       ingestVars>>

IndexNext == IndexTail \/ IndexScan \/ ApiUsers

\* The environment configures the cap.
InitIndex ==
    /\ applied = <<>> /\ snap = <<>> /\ call = <<>> /\ heard = <<>>
    /\ MAX_HOSTS_PER_USER \in 0..MaxCap
    /\ IngestIdle /\ BcastIdle /\ ReaderIdle /\ PageIdle

SpecIndex == InitIndex /\ [][IndexNext]_vars

\* ------------------------------------------------------- the index: claims
\* The events applied so far for base key b, in the order applied.
events_of(b) == SelectSeq(applied, LAMBDA e : base_user(e.ev.user) = b)

applied_bases == {base_user(applied[i].ev.user) : i \in 1..Len(applied)}

\* C11: for every base key the record's last_ts is the lexicographic maximum
\* of the timestamps of the events applied for it by the tailer and the
\* scanner, in whatever order they came; and no step lowers it.
C11_IsMaximum ==
    /\ DOMAIN AGG = applied_bases
    /\ \A b \in DOMAIN AGG :
          /\ \E i \in 1..Len(events_of(b)) : events_of(b)[i].ev.ts = AGG[b].last_ts
          /\ \A i \in 1..Len(events_of(b)) : ~StrLess(AGG[b].last_ts, events_of(b)[i].ev.ts)

C11_NeverLower ==
    \A b \in DOMAIN AGG : b \in DOMAIN AGG' /\ ~StrLess(AGG'[b].last_ts, AGG[b].last_ts)

C11_LastTimestampIsMaximum == []C11_IsMaximum /\ [][C11_NeverLower]_vars

\* The scanner applied an older event ("09") after the tailer applied a newer
\* one ("10") for the same key, and a third one came after.
C11_Witness ==
    /\ Len(applied) = 3
    /\ applied[1].by = "tail" /\ applied[1].ev.ts = <<"1", "0">>
    /\ applied[2].by = "scan" /\ applied[2].ev.ts = <<"0", "9">>
    /\ base_user(applied[1].ev.user) = base_user(applied[2].ev.user)
    /\ AGG[<<"a">>].last_ts = <<"1", "0">>


\* C12: for every record and every configured cap MAX_HOSTS_PER_USER the host
\* set of the record never holds more than the cap, it only grows, and once
\* it holds the cap a newly seen host is dropped and none is evicted.
C12_WithinCap ==
    \A b \in DOMAIN AGG : Cardinality(AGG[b].hosts) <= MAX_HOSTS_PER_USER

C12_OnlyGrows ==
    \A b \in DOMAIN AGG :
        /\ b \in DOMAIN AGG'
        /\ AGG[b].hosts \subseteq AGG'[b].hosts
        /\ Cardinality(AGG[b].hosts) >= MAX_HOSTS_PER_USER
               => AGG'[b].hosts = AGG[b].hosts

C12_HostsCappedAndGrowOnly == []C12_WithinCap /\ [][C12_OnlyGrows]_vars

\* The first event of a key was applied while the configured cap is 0: the
\* record is created holding the event's host.
C12_CreatedOverCap ==
    /\ MAX_HOSTS_PER_USER = 0
    /\ Len(applied) = 1
    /\ \E b \in DOMAIN AGG : AGG[b].hosts = {applied[1].ev.host}



\* The events the tailer appended, in arrival order.
tail_appended ==
    LET t == SelectSeq(applied, LAMBDA e : e.by = "tail")
    IN  [i \in 1..Len(t) |-> t[i].ev]

\* C13: the recent-events ring never holds more than MAX_RECENT_EVENTS
\* events, and after n appends it holds the last min(n, MAX_RECENT_EVENTS)
\* appended events in arrival order.
C13_RingHoldsLastAppended ==
    LET n == Len(tail_appended)
        k == Min(n, MAX_RECENT_EVENTS)
    IN  /\ Len(recent_events) <= MAX_RECENT_EVENTS
        /\ recent_events = SubSeq(tail_appended, n - k + 1, n)

\* More events were appended than the ring holds: the oldest were evicted.
C13_Witness ==
    /\ Len(tail_appended) > MAX_RECENT_EVENTS
    /\ Len(recent_events) = MAX_RECENT_EVENTS
    /\ recent_events[1] # tail_appended[1]



\* C14: an apply is atomic with respect to the other writer and to the
\* snapshot: every item a snapshot returns is a record on which each apply
\* made so far was made in full (its count is the number of events applied
\* to its key and is never 0, its names are all the users applied, its
\* last_ts is one of their timestamps and none is greater).
C14_SnapshotSeesWholeApplies ==
    snap # <<>> =>
        \A i \in 1..Len(snap[1].items) :
            LET it == snap[1].items[i]
                es == events_of(it.base)
            IN  /\ it.count >= 1
                /\ it.count = Len(es)
                /\ it.display_names = sorted({es[k].ev.user : k \in 1..Len(es)})
                /\ \E k \in 1..Len(es) : it.last_ts = es[k].ev.ts
                /\ \A k \in 1..Len(es) : ~StrGreater(es[k].ev.ts, it.last_ts)
                /\ Range(it.hosts) \subseteq {es[k].ev.host : k \in 1..Len(es)}

\* A snapshot taken after both writers applied events returned a record that
\* the last apply had just created.
C14_Witness ==
    /\ snap # <<>>
    /\ Len(applied) >= 2
    /\ \E k, l \in 1..Len(applied) : applied[k].by = "tail" /\ applied[l].by = "scan"
    /\ \E i \in 1..Len(snap[1].items) :
           /\ snap[1].items[i].base = base_user(applied[Len(applied)].ev.user)
           /\ snap[1].items[i].count = 1



\* f is a case-insensitive substring of s.
ci_substring(f, s) == contains(lower(s), lower(f))

\* The bounded host lists the records can show: at most MAX_HOSTS_PER_USER
\* hosts of each record.
bounded_hosts ==
    {H \in [DOMAIN AGG -> SUBSET UNION {AGG[b].hosts : b \in DOMAIN AGG}] :
        \A b \in DOMAIN AGG :
            /\ H[b] \subseteq AGG[b].hosts
            /\ Cardinality(H[b]) = Min(MAX_HOSTS_PER_USER, Cardinality(AGG[b].hosts))}

\* The items are at most limit projections of the records of `pass`, ordered
\* by last_ts descending, and no record of `pass` left out has a greater
\* last_ts than one returned.
top_of(items, pass, H, limit) ==
    LET bases == {items[i].base : i \in 1..Len(items)}
    IN  /\ Len(items) = Min(limit, Cardinality(pass))
        /\ bases \subseteq pass
        /\ Cardinality(bases) = Len(items)
        /\ \A i \in 1..Len(items) :
               LET it == items[i]
                   a  == AGG[it.base]
               IN  /\ it.count = a.count /\ it.last_ts = a.last_ts
                   /\ it.display_names = sorted(a.variants)
                   /\ Range(it.hosts) = H[it.base]
        /\ \A i \in 1..(Len(items) - 1) : ~StrLess(items[i].last_ts, items[i + 1].last_ts)
        /\ \A b \in pass \ bases : \A i \in 1..Len(items) :
               ~StrGreater(AGG[b].last_ts, items[i].last_ts)

\* The statement of C15 with the filters taken as they are given.
C15_FiltersAsGiven ==
    snap # <<>> =>
        \E H \in bounded_hosts :
            LET uf == snap[1].user_q
                sf == snap[1].site_q
                pass == {b \in DOMAIN AGG :
                            /\ \/ ci_substring(uf, b)
                               \/ \E v \in AGG[b].variants : ci_substring(uf, v)
                            /\ \E h \in H[b] : ci_substring(sf, h)}
            IN  top_of(snap[1].items, pass, H, snap[1].limit)

C15_State ==
    snap # <<>> =>
        \E H \in bounded_hosts :
            LET uf == strip(snap[1].user_q)
                sf == strip(snap[1].site_q)
                pass == {b \in DOMAIN AGG :
                            /\ \/ uf = <<>>
                               \/ ci_substring(uf, b)
                               \/ \E v \in AGG[b].variants : ci_substring(uf, v)
                            /\ \/ sf = <<>>
                               \/ \E h \in H[b] : ci_substring(sf, h)}
            IN  top_of(snap[1].items, pass, H, snap[1].limit)

C15_Frame == snap' # <<>> => AGG' = AGG /\ recent_events' = recent_events

\* C15: a snapshot returns at most limit projections, ordered by last_ts
\* descending: exactly the records of greatest last_ts among those that pass
\* both filters, where a filter is first trimmed, a filter that is then
\* empty passes every record, the user filter is otherwise a case-insensitive
\* substring of the base key or of a variant and the site filter of a host
\* of the bounded host list; the index is left unchanged.
C15_SnapshotIsTopOfPassing == []C15_State /\ [][C15_Frame]_vars

\* A snapshot with a user filter given with surrounding blanks and a limit
\* that cut the result returned the record of greatest last_ts.
C15_Witness ==
    /\ snap # <<>>
    /\ snap[1].user_q = <<" ", "A">>
    /\ snap[1].limit = 1
    /\ Len(snap[1].items) = 1
    /\ Cardinality(DOMAIN AGG) = 2



\* ------------------------------------------------- the functions on text
\* The texts of at most n characters of the set A.
RECURSIVE TextUpTo(_, _)
TextUpTo(A, n) ==
    IF n = 0 THEN {<<>>}
    ELSE LET T == TextUpTo(A, n - 1)
         IN  T \cup {Append(t, c) : t \in T, c \in A}

\* The users given to base_user and the lines given to parse_line.
UserText == TextUpTo({"5", "a", "."}, MaxUserLen)
LineText == TextUpTo({"1", "a", " ", "|"}, MaxLineLen)

InitText ==
    /\ call \in {<<[fn |-> "base_user", arg |-> u, ret |-> <<>>, done |-> FALSE]>> : u \in UserText}
           \cup {<<[fn |-> "parse_line", arg |-> l, ret |-> <<>>, done |-> FALSE]>> : l \in LineText}
    /\ applied = <<>> /\ snap = <<>> /\ heard = <<>>
    /\ MAX_HOSTS_PER_USER = DEFAULT_MAX_HOSTS
    /\ IngestIdle /\ BcastIdle /\ ReaderIdle /\ PageIdle

BaseUserCall ==
    /\ call # <<>> /\ call[1].fn = "base_user" /\ ~call[1].done
    /\ call' = <<[call[1] EXCEPT !.ret = base_user(call[1].arg), !.done = TRUE]>>
    /\ UNCHANGED <<applied, snap, MAX_HOSTS_PER_USER, heard, readerVars, pageVars, bcastVars,
                   ingestVars>>

ParseLineCall ==
    /\ call # <<>> /\ call[1].fn = "parse_line" /\ ~call[1].done
    /\ call' = <<[call[1] EXCEPT !.ret = parse_line(call[1].arg), !.done = TRUE]>>
    /\ UNCHANGED <<applied, snap, MAX_HOSTS_PER_USER, heard, readerVars, pageVars, bcastVars,
                   ingestVars>>

\* api_user_events: the base key reported for a user is given back as the
\* parameter base and goes through base_user again (line 1086).
BaseUserAgain ==
    /\ call # <<>> /\ call[1].fn = "base_user" /\ call[1].done
    /\ call' = <<[fn |-> "api_user_events", arg |-> call[1].arg, ret |-> call[1].ret,
                  done |-> TRUE, base |-> base_user(call[1].ret)]>>
    /\ UNCHANGED <<applied, snap, MAX_HOSTS_PER_USER, heard, readerVars, pageVars, bcastVars,
                   ingestVars>>

TextNext == BaseUserCall \/ ParseLineCall \/ BaseUserAgain

SpecText == InitText /\ [][TextNext]_vars

\* ---------------------------------------------- the functions on text: claims
returned(fn) == call # <<>> /\ call[1].fn = fn /\ call[1].done

\* C16: base_user strips a leading all-digit prefix up to the first "." and
\* otherwise returns the name unchanged; a name whose suffix after the "."
\* is empty is returned unchanged, so that a non-empty user never yields an
\* empty base key.
C16_BaseKeyBoundary ==
    returned("base_user") =>
        LET u == call[1].arg
            i == find(u, ".")
        IN  /\ call[1].ret =
                   IF i > 1 /\ all_digits(SubSeq(u, 1, i - 1)) /\ i < Len(u)
                   THEN Drop(u, i + 1) ELSE u
            /\ u # <<>> => call[1].ret # <<>>

\* base_user was called on a digit prefix followed by "." and nothing else,
\* and returned the empty string.
C16_EmptyBaseKey ==
    /\ returned("base_user")
    /\ call[1].arg = <<"5", "5", ".">>
    /\ call[1].ret = <<>>



\* The fields of a line "timestamp | user | host": <<>> when the line is not
\* of that form, else <<[ts, user, host]>> with the user and the host as
\* written between and after the separators.
fields_of(line) ==
    LET l1 == lstrip(line)
        l2 == lstrip(Drop(l1, TS_WIDTH + 1))
        r  == IF l2 = <<>> THEN <<>> ELSE Tail(l2)
        p  == find(r, "|")
    IN  IF /\ Len(l1) >= TS_WIDTH /\ all_digits(SubSeq(l1, 1, TS_WIDTH))
           /\ l2 # <<>> /\ Head(l2) = "|"
           /\ p > 0
        THEN <<[ts |-> SubSeq(l1, 1, TS_WIDTH), user |-> SubSeq(r, 1, p - 1),
                host |-> Drop(r, p + 1)]>>
        ELSE <<>>

\* C17: for a line "timestamp | user | host" whose trimmed user is not
\* empty, parse_line returns that timestamp, the trimmed user and the trimmed
\* host, with "UNKNOWN" for a host that is empty after trimming (a host field
\* of no characters included); for every other line it returns no event.
C17_ParsesEveryWellFormedLine ==
    returned("parse_line") =>
        LET f == fields_of(call[1].arg)
        IN  IF f # <<>> /\ strip(f[1].user) # <<>>
            THEN call[1].ret =
                     <<[ts |-> f[1].ts, user |-> strip(f[1].user),
                        host |-> IF strip(f[1].host) = <<>> THEN UNKNOWN
                                 ELSE strip(f[1].host)]>>
            ELSE call[1].ret = <<>>

\* parse_line was called on a line whose host field holds no character and
\* returned no event.
C17_EmptyHostDropped ==
    /\ returned("parse_line")
    /\ call[1].arg = <<"1", "1", "|", "a", "|">>
    /\ call[1].ret = <<>>


\* ------------------------------------------------ the tailer: more claims
\* C18: the tailer never applies, appends to the ring or broadcasts a line
\* that was in the file at its first successful open, and only a reopen that
\* follows a rotation reads from offset 0.
C18_NoSkipped == \A i \in 1..Len(temit) : temit[i] \notin tail.skipped

C18_ReopenAtZero ==
    (tail.f = 0 /\ tail'.f # 0 /\ ~tail.first_open) => tail.cause = "rotated"

C18_SkipsPreexistingLines == []C18_NoSkipped /\ [][C18_ReopenAtZero]_vars

\* The tailer passed over a line at its first open, met an I/O error, opened
\* the same file again and applied that line.
C18_PreexistingApplied ==
    /\ tail.cause = "error"
    /\ tail.f # 0
    /\ \E i \in 1..Len(temit) : temit[i] \in tail.skipped



\* C19: the tailer has no terminal state.  It is always at one of its three
\* positions and, when it is the running task, has a step to take; it holds at
\* most one open file; an I/O error of open, readline, stat or close leaves it
\* asleep with no file open, and each sleep ends with the tailer back at the
\* top of its loop.
C19_Running ==
    /\ tail.pc \in {"top", "stat", "sleep"}
    /\ tail.handles <= 1
    /\ tail.handles = IF tail.f # 0 THEN 1 ELSE 0
    /\ running = "tail" /\ tail.pc # "sleep" => ENABLED (TailOpen \/ TailRead \/ TailStat)
    /\ tail.pc = "sleep" => running # "tail"

\* A step of the tailer in which an I/O error was raised (nenv counts them).
C19_ErrorCloses ==
    (nenv' # nenv /\ tail' # tail)
        => tail'.f = 0 /\ tail'.handles = 0 /\ tail'.pc = "sleep"

C19_TailerNeverStops ==
    /\ []C19_Running
    /\ [][C19_ErrorCloses]_vars
    /\ (tail.pc = "sleep") ~> (tail.pc = "top")

\* After an I/O error that found a file open, the tailer slept, woke and
\* opened the file again.
C19_Witness ==
    /\ tail.cause = "error"
    /\ tail.f # 0 /\ tail.handles = 1
    /\ tail.pc = "top"
    /\ nenv >= 1



\* ------------------------------------------- the tailer and its subscribers
\* The ingestion tasks together with /api/events clients that subscribe and
\* take messages at their own pace, or never.
\* A client subscribes while the ingestion tasks run.
LiveSubscribe == nqueues < MaxLiveSubs /\ Subscribe

LiveNext == IngestNext \/ LiveSubscribe \/ Get

SpecLive == InitIngest /\ [][LiveNext]_vars

\* The message of the line the tailer emitted last.
last_message == message_of(parsed_line[text[temit[Len(temit)]]][1])

\* C20: a publish never blocks the tailer.  In the step in which the tailer
\* emits a line, each registered queue that can accept the message holds it
\* at its end, whatever it held before, each queue that cannot is out of the
\* registry, and the tailer is still the running task, at the top of its
\* loop.
C20_PublishStep ==
    Len(temit') > Len(temit) =>
        /\ running' = "tail" /\ tail'.pc = "top"
        /\ subscribers' \subseteq subscribers
        /\ \A q \in subscribers :
               IF QUEUE_MAXSIZE > 0 /\ Len(queue[q]) >= QUEUE_MAXSIZE
               THEN q \notin subscribers'
               ELSE /\ q \in subscribers'
                    /\ queue'[q] = Append(queue[q], last_message')

C20_PublishNeverBlocks == [][C20_PublishStep]_vars

\* The tailer emitted two lines while a subscriber that took nothing held
\* both messages.
C20_Witness ==
    /\ Len(temit) >= 2
    /\ \E q \in subscribers : Len(queue[q]) >= 2
    /\ running = "tail" /\ tail.pc = "top"



\* ------------------------------------------------ the index: more claims
\* C21: when an event is applied to an existing record whose last_ts equals
\* the event's timestamp, the record's sample_host becomes the event's host.
C21_TieStep ==
    Len(applied') = Len(applied) + 1 =>
        LET ev == applied'[Len(applied')].ev
            b  == base_user(ev.user)
        IN  (b \in DOMAIN AGG /\ AGG[b].last_ts = ev.ts) => AGG'[b].sample_host = ev.host

C21_TieFavoursIncoming == [][C21_TieStep]_vars

\* Two events of one key with the same timestamp and different hosts were
\* applied, and the record shows the host of the first.
C21_TieKeepsStored ==
    /\ Len(applied) = 2
    /\ applied[1].ev.ts = applied[2].ev.ts
    /\ base_user(applied[1].ev.user) = base_user(applied[2].ev.user)
    /\ applied[1].ev.host # applied[2].ev.host
    /\ AGG[base_user(applied[2].ev.user)].sample_host = applied[1].ev.host



\* ------------------------------------------ the tailer's sinks: more claims
\* The tailer takes a line from its file in this step.
tail_reads == tail.f # 0 /\ tail'.f = tail.f /\ tail'.pos = tail.pos + 1

\* C22: the tailer keeps its three sinks in lockstep.  In the step in which
\* it reads a line that parses, the record of the line's key counts one more
\* event and no other record changes, the event is the newest of the ring,
\* and each registered queue holds one more message, that of the event; in
\* the step in which it reads a line that does not parse, the index, the ring,
\* the registry and the queues are unchanged.
C22_ReadStep ==
    tail_reads =>
        LET ev == parsed_line[text[files[tail.f][tail.pos + 1]]]
        IN  IF ev # <<>>
            THEN LET b == base_user(ev[1].user)
                     r == Append(recent_events, ev[1])
                 IN  /\ DOMAIN AGG' = DOMAIN AGG \cup {b}
                     /\ AGG'[b].count = (IF b \in DOMAIN AGG THEN AGG[b].count ELSE 0) + 1
                     /\ \A k \in DOMAIN AGG \ {b} : AGG'[k] = AGG[k]
                     /\ recent_events' =
                            SubSeq(r, Len(r) - Min(Len(r), MAX_RECENT_EVENTS) + 1, Len(r))
                     /\ subscribers' = subscribers
                     /\ \A q \in 1..Len(queue) :
                            queue'[q] = IF q \in subscribers
                                        THEN Append(queue[q], message_of(ev[1]))
                                        ELSE queue[q]
                     /\ tail'.pc = "top" /\ running' = "tail"
            ELSE /\ AGG' = AGG /\ recent_events' = recent_events
                 /\ subscribers' = subscribers /\ queue' = queue

C22_SinksInLockstep == [][C22_ReadStep]_vars

\* The tailer read a line that parsed and one that did not while a subscriber
\* was registered: one record, one ring entry and one message.
C22_Witness ==
    /\ Len(text) = 2
    /\ \E i, j \in 1..2 : parsed_line[text[i]] = <<>> /\ parsed_line[text[j]] # <<>>
    /\ tail.f # 0 /\ tail.pos = 2 /\ Len(files[tail.f]) = 2
    /\ Len(temit) = 1 /\ Len(recent_events) = 1
    /\ \E q \in subscribers : Len(queue[q]) = 1



\* ------------------------------------------------ the scanner: more claims
\* C23: no step of the scanner changes the ring, the registry of the
\* broadcaster or a subscriber's queue.
C23_ScanStep ==
    scanVars' # scanVars =>
        /\ recent_events' = recent_events
        /\ subscribers' = subscribers
        /\ queue' = queue

C23_ScanIsSilent == [][C23_ScanStep]_vars

\* The scanner applied a line to the index while a subscriber was registered:
\* the ring and the subscriber's queue are empty.
C23_Witness ==
    /\ semit # <<>>
    /\ temit = <<>>
    /\ AGG # <<>>
    /\ recent_events = <<>>
    /\ \E q \in subscribers : queue[q] = <<>>



\* C24: in every state 0 <= FULL_SCAN_READ_BYTES <= FULL_SCAN_TOTAL_BYTES,
\* and FULL_SCAN_READ_BYTES never decreases from a state to the next.
C24_Within == 0 <= FULL_SCAN_READ_BYTES /\ FULL_SCAN_READ_BYTES <= FULL_SCAN_TOTAL_BYTES

C24_NeverDecreases == FULL_SCAN_READ_BYTES' >= FULL_SCAN_READ_BYTES

C24_ReadBytesBounded == []C24_Within /\ [][C24_NeverDecreases]_vars

\* The scan is under way and has reported progress that is neither 0 nor the
\* total.
C24_Witness ==
    /\ scan.pc \in {"loop", "sleep"}
    /\ ~FULL_SCAN_DONE
    /\ 0 < FULL_SCAN_READ_BYTES /\ FULL_SCAN_READ_BYTES < FULL_SCAN_TOTAL_BYTES



\* A step in which the scan fails: an exception of stat, open or readline
\* (nenv counts them), or the path missing at stat or at open.
scan_fails ==
    /\ scan' # scan
    /\ \/ nenv' # nenv
       \/ path = 0 /\ scan.pc \in {"new", "open"}

\* C25: when the scan fails, FULL_SCAN_DONE is true and FULL_SCAN_ERR is set;
\* the index keeps what the scan had applied; the scan is over for good (its
\* state and its four globals never change again); the tailer is untouched
\* and, when it is the running task, has a step to take.
C25_FailStep ==
    scan_fails =>
        /\ FULL_SCAN_DONE' /\ FULL_SCAN_ERR' # NoError
        /\ scan'.pc = "done"
        /\ AGG' = AGG /\ semit' = semit
        /\ tail' = tail

C25_NoRetry == scan.pc = "done" => UNCHANGED scanVars

C25_Failed ==
    FULL_SCAN_ERR # NoError =>
        /\ FULL_SCAN_DONE /\ scan.pc = "done"
        /\ \A i \in 1..Len(semit) : base_of_line(semit[i].id) \in DOMAIN AGG
        /\ running = "tail" /\ tail.pc # "sleep" => ENABLED (TailOpen \/ TailRead \/ TailStat)

C25_ScanFailureIsFinal ==
    /\ []C25_Failed
    /\ [][C25_FailStep]_vars
    /\ [][C25_NoRetry]_vars

\* The scan failed on an exception after it had applied a line, and the
\* tailer applied a line afterwards.
C25_Witness ==
    /\ FULL_SCAN_ERR = "error"
    /\ semit # <<>>
    /\ temit # <<>>
    /\ \A i \in 1..Len(semit) : temit[Len(temit)] > semit[i].id



\* --------------------------------------------- the broadcaster: more claims
\* The messages broadcast so far, in order.
broadcast_log ==
    published \o [i \in 1..Len(temit) |-> message_of(parsed_line[text[temit[i]]][1])]

\* C26: per-subscriber FIFO.  The messages a subscriber took, followed by
\* those waiting in its queue, are the messages broadcast from its
\* registration to its removal (or to now), each once and in the order of the
\* broadcasts; none is from before its registration.
C26_PerSubscriberFifo ==
    \A q \in 1..Len(heard) :
        LET hi == IF q \in subscribers THEN Len(broadcast_log) ELSE heard[q].until
        IN  heard[q].got \o queue[q] = SubSeq(broadcast_log, heard[q].since + 1, hi)

\* A subscriber that registered after the first broadcast and left after the
\* second took the one message broadcast in between, while one that was
\* registered from the start holds both.
C26_Witness ==
    /\ Len(broadcast_log) = 2
    /\ \E q \in 1..Len(heard) :
           /\ heard[q].since = 1 /\ heard[q].until = 2
           /\ Len(heard[q].got) = 1 /\ queue[q] = <<>>
    /\ \E q \in subscribers : heard[q].since = 0 /\ Len(queue[q]) = 2



\* ------------------------------------------------ the tailer: more claims
\* C27: the tailer applies each line of a file at most once, also after an
\* I/O error made it close its handle and open the same file again.
C27_TailerAppliesOnce ==
    \A i, j \in 1..Len(temit) : temit[i] = temit[j] => i = j

\* Nothing happened to the file but appends; the tailer met one I/O error,
\* opened the same file again and applied a line a second time.
C27_AppliedAgain ==
    /\ nenv = 1 /\ tail.cause = "error"
    /\ tail.f # 0 /\ tail.f = path
    /\ \E i, j \in 1..Len(temit) : i < j /\ temit[i] = temit[j]



\* ------------------------------------------------ both paths: more claims
\* The log was at the path when on_start ran and has only been appended to.
append_only == path # 0 /\ ~moved

\* C28: when the log exists at startup and is only appended to, the offset at
\* which the tailer starts to read is not greater than the scanner's
\* stop_offset, and every valid line of the file is in the end applied to the
\* index by the tailer or by the scanner.
C28_StartWithinScan ==
    (append_only /\ ~tail.first_open /\ scan.pc # "new")
        => Cardinality(tail.skipped) <= scan.stop_offset

C28_Covered ==
    append_only =>
        \A i \in 1..Len(files[path]) :
            valid_line(files[path][i]) =>
                \/ files[path][i] \in Range(temit)
                \/ \E j \in 1..Len(semit) : semit[j].id = files[path][i]

C28_NoGap == []C28_StartWithinScan /\ <>[]C28_Covered

\* The log has only been appended to; the scanner is done without an error
\* and the tailer has read to the end of the file; a line that lies between
\* stop_offset and the offset of the tailer's first open is in neither path.
C28_LineInGap ==
    /\ append_only
    /\ FULL_SCAN_DONE /\ FULL_SCAN_ERR = NoError
    /\ tail.f = path /\ tail.pos = Len(files[path])
    /\ \E i \in 1..Len(files[path]) :
           /\ i > scan.stop_offset
           /\ files[path][i] \in tail.skipped
           /\ valid_line(files[path][i])
           /\ files[path][i] \notin Range(temit)
           /\ \A j \in 1..Len(semit) : semit[j].id # files[path][i]



\* C29: under fair scheduling every valid line written to the log after the
\* tailer's task was created is in the end applied to the index by the
\* tailer, whether the file is there when the tailer starts or is created
\* later, goes missing and comes back, or is truncated in place.
C29_TailedAll ==
    \A id \in (tail.born + 1)..Len(text) : valid_line(id) => id \in Range(temit)

C29_EveryNewLineTailed == <>[]C29_TailedAll

\* The log was created and written after the tailer's task had started; the
\* tailer's first successful open passed over the line, and the tailer has
\* read the file to its end.
C29_NewLineSkipped ==
    /\ nenv = 1 /\ moved /\ path = 1
    /\ tail.f = path /\ tail.pos = Len(files[path]) /\ tail.pc = "sleep"
    /\ \E id \in (tail.born + 1)..Len(text) :
           /\ valid_line(id)
           /\ id \in tail.skipped
           /\ id \notin Range(temit)



\* ---------------------------------------- the functions on text: more claims
\* C30: base_user is idempotent, so the base key that the historical query
\* matches against, base_user of the key the index reported, is that key.
C30_BaseUserIdempotent ==
    returned("api_user_events") => call[1].base = call[1].ret

\* The key reported for the user "5.5.a" is "5.a"; the historical query
\* looks for the key "a".
C30_NormalizedTwice ==
    /\ returned("api_user_events")
    /\ call[1].arg = <<"5", ".", "5", ".", "a">>
    /\ call[1].ret = <<"5", ".", "a">>
    /\ call[1].base = <<"a">>


\* -------------------------------------------------------------- C31 (paging)
\* The events of base in the file, in file order.
paged_events(base) == matching(file_lines(pgfile), base, <<>>)

\* The timestamps of a list of events strictly increase.
increasing(evs) ==
    \A i \in 1..Len(evs) - 1 : StrLess(evs[i].ts, evs[i + 1].ts)

\* The paging has reached an empty page.
paged_out == pgquery # <<>> /\ pgresult = <<>>

\* Every event of the list is among the loaded ones exactly once, and nothing
\* else is.
loaded_once(evs) ==
    /\ Len(modalAll) = Len(evs)
    /\ Range(modalAll) = Range(evs)

C31_AllLoadedOnce ==
    (paged_out /\ increasing(paged_events(pgquery[1].base)))
        => loaded_once(paged_events(pgquery[1].base))

\* C31: over an unchanged file in which the events of base have strictly
\* increasing timestamps, paging with the cursor set to the timestamp of the
\* first item of the previous page reaches an empty page after finitely many
\* calls, and by then every event of base has been returned exactly once,
\* for every limit >= 1.
C31_CursorPagingCoversOnce ==
    /\ []C31_AllLoadedOnce
    /\ (pgquery # <<>>) ~> paged_out

\* The paging of two events of a, timestamps 01 < 02, in a file whose last
\* line has no newline, one event a page: the empty page is reached with the
\* newer event never returned.
C31_NewestEventSkipped ==
    /\ pgfile = <<"0", "1", "|", "a", "|", "h", NL,
                  "0", "2", "|", "5", ".", "a", "|", "g">>
    /\ paged_out
    /\ pgquery[1].base = <<"a">> /\ pgquery[1].limit = 1
    /\ increasing(paged_events(<<"a">>))
    /\ Len(paged_events(<<"a">>)) = 2
    /\ Len(modalAll) = 1
    /\ modalAll[1].ts = <<"0", "1">>

\* Where the reader yields the lines right (a file of one chunk that ends
\* with a newline) the paging returns every event exactly once.
C31_CoversOnceWithinOneChunk ==
    (/\ paged_out
     /\ Len(pgfile) <= PAGE_CHUNK_SIZE
     /\ pgfile # <<>> => pgfile[Len(pgfile)] = NL
     /\ increasing(paged_events(pgquery[1].base)))
        => loaded_once(paged_events(pgquery[1].base))


=============================================================================
